---- MODULE Spec2Model ----
(***************************************************************************)
(* Chase decision engine of the credit-control backend.                    *)
(*                                                                         *)
(* The model covers the invoices and chase_emails tables, the app_config   *)
(* map, the clock, the scheduled batch run (processOverdueChasing), the    *)
(* operator requests (pause / resume / expedite), the billing sync and the *)
(* Stripe payment webhooks, and the time zone of the process, in which a   *)
(* stored timestamp is read back.  Every await of maybeSendChase is a      *)
(* separate step, so that evaluations interleave with each other and with  *)
(* the other writers of the store exactly where the code yields.           *)
(*                                                                         *)
(* Eight specifications share the variables: Spec (the batch and an        *)
(* expedite racing on an invoice that is synced and paused), SpecOps (the  *)
(* payment webhooks, the pause and the sync against one evaluation at a    *)
(* time), SpecEval (maybeSendChase called directly on drawn inputs),       *)
(* SpecBatch (the batch run over two invoices with a failing store),       *)
(* SpecInterval (direct calls at drawn times since the last chase),        *)
(* SpecDays (direct calls on drawn overdue_days and due dates),            *)
(* SpecListing (the overdue listing read over synced and chased rows) and  *)
(* SpecLive (the scheduled batch under fairness).                          *)
(***************************************************************************)
EXTENDS Integers, Sequences, FiniteSets, TLC

VARIABLES tz, now, config, invoices, chase_emails, delivered, workers

vars == <<tz, now, config, invoices, chase_emails, delivered, workers>>

(***************************************************************************)
(* Bounds of the model.                                                    *)
(***************************************************************************)
\* last clock value (hundredths of an hour since the invoices fell due) a
\* Tick may reach: day 7
MaxNow == 16800
\* last clock value the clock of the scheduled specification may reach: day 13
LiveMaxNow == 31200
\* in the scheduled specification the INSERT or the UPDATE that records a
\* delivery fails only while fewer than this many deliveries of the invoice
\* have gone unrecorded
MaxLost == 1
\* an evaluation is started only while the chase_count of the invoice and
\* the number of deliveries made for it are below this
MaxCount == 5

(***************************************************************************)
(* Fixed data.                                                             *)
(***************************************************************************)
HoursPerDay == 24
\* The clock counts hundredths of an hour, the resolution of the 0.01 h
\* tolerance of the interval gate.
HundredthsPerHour == 100
ClockPerDay == HoursPerDay * HundredthsPerHour
\* the clock advances three days at a time: day 4, then day 7 after the due date
TickHours == 3 * ClockPerDay
\* clock value in the initial state: day 4 after the due date
StartNow == 4 * ClockPerDay
\* Stripe due timestamp of every tracked invoice (hour 0 of day 0)
DueAt == 0
\* SQL NULL / JS null for the nullable integer columns
Null == -1
\* Offset of the local time of the Node process from UTC, in hundredths of an
\* hour: America/New_York (standard time), UTC and Asia/Tokyo.
UTC == 0
TimeZoneOffsets == {-500, UTC, 900}

InvoiceIds == {1, 2}
\* the invoices the Stripe listing returns in the concurrent specification
TrackedIds == {1}
BATCH == "batch"
DIRECT == "direct"
Expediters == {"exp1"}
\* the client of GET /api/invoices/overdue
VIEWER == "viewer"
\* the run of syncInvoices (hourly job, POST /api/test/sync)
SYNC == "sync"
\* the handler of the invoice.payment_succeeded event
WEBHOOK == "webhook"
Workers == {BATCH, DIRECT, VIEWER, SYNC, WEBHOOK} \cup Expediters

Digits == <<"0", "1", "2", "3", "4", "5", "6", "7", "8", "9">>
STR_TRUE == <<"t", "r", "u", "e">>
STR_FALSE == <<"f", "a", "l", "s", "e">>
\* values of app_config.max_chase_count: the seed '4', and '1' and '2' as an
\* operator sets them in the table
MaxChaseCountValues == {<<"1">>, <<"2">>, <<"4">>}
\* values of app_config.chase_enabled: the seed 'true', and 'false' as an
\* operator sets it in the table
ChaseEnabledValues == {STR_TRUE, STR_FALSE}

(***************************************************************************)
(* Pure helpers of chase-service.js.                                       *)
(***************************************************************************)
IsDigit(c) == \E i \in 1..10 : Digits[i] = c

DigitVal(c) == (CHOOSE i \in 1..10 : Digits[i] = c) - 1

RECURSIVE DigitPrefixValue(_, _)
\* value of the longest all-digit prefix of s, acc = value read so far
DigitPrefixValue(s, acc) ==
  IF s = <<>> \/ ~IsDigit(Head(s)) THEN acc
  ELSE DigitPrefixValue(Tail(s), acc * 10 + DigitVal(Head(s)))

\* A character the string syntax cannot write stands in the sequences as its
\* escape \uXXXX, one element per character.
\* The white space parseInt skips at the start of its argument, the
\* StrWhiteSpaceChar of ECMAScript: tab, vertical tab, form feed, space,
\* no-break space, the byte order mark and every other space separator
WhiteSpaceChars ==
  {"\t", "\\u000B", "\f", " ", "\\u00A0", "\\uFEFF", "\\u1680",
   "\\u2000", "\\u2001", "\\u2002", "\\u2003", "\\u2004", "\\u2005",
   "\\u2006", "\\u2007", "\\u2008", "\\u2009", "\\u200A",
   "\\u202F", "\\u205F", "\\u3000"}
\* and the line terminators: line feed, carriage return, line separator and
\* paragraph separator
LineTerminators == {"\n", "\r", "\\u2028", "\\u2029"}
WhiteSpace == WhiteSpaceChars \cup LineTerminators

RECURSIVE TrimStart(_)
\* s without its leading white space
TrimStart(s) ==
  IF s # <<>> /\ Head(s) \in WhiteSpace THEN TrimStart(Tail(s)) ELSE s

\* parseInt(s, 10): leading white space is skipped, one sign is accepted, then
\* the longest run of digits is read; NaN when no digit follows
parseInt(s) ==
  LET trimmed == TrimStart(s)
      signed == trimmed # <<>> /\ Head(trimmed) \in {"+", "-"}
      digits == IF signed THEN Tail(trimmed) ELSE trimmed
  IN  IF digits = <<>> \/ ~IsDigit(Head(digits))
      THEN [nan |-> TRUE, val |-> 0]
      ELSE [nan |-> FALSE,
            val |-> IF signed /\ Head(trimmed) = "-"
                    THEN 0 - DigitPrefixValue(digits, 0)
                    ELSE DigitPrefixValue(digits, 0)]

\* configMap.get(key) || dflt : an absent key and an empty string give dflt
ConfigGetOr(configMap, key, dflt) ==
  IF key \in DOMAIN configMap /\ configMap[key] # <<>> THEN configMap[key] ELSE dflt

\* as getIntervalHoursForOverdueDays, with the lowest tier starting a day early
getIntervalHoursForOverdueDays_FromDay4(daysOverdue) ==
  IF daysOverdue >= 10 THEN 24
  ELSE IF daysOverdue >= 7 THEN 48
  ELSE IF daysOverdue >= 4 THEN 72
  ELSE Null

getIntervalHoursForOverdueDays(daysOverdue) ==
  IF daysOverdue >= 10 THEN 24
  ELSE IF daysOverdue >= 7 THEN 48
  ELSE IF daysOverdue >= 5 THEN 72
  ELSE Null

Max(a, b) == IF a >= b THEN a ELSE b

\* Two texts of invoices.due_date that are not dates: the empty string, which
\* sorts before every date, and a text such as 'n/a', which sorts after.
DUE_EMPTY == -2
DUE_NOT_A_DATE == -3

\* parseDateOnly: the day number of a YYYY-MM-DD text, null for '' and for a
\* text that neither splits into three numbers nor parses as a Date
parseDateOnly(dateStr) ==
  IF dateStr \in {Null, DUE_EMPTY, DUE_NOT_A_DATE} THEN Null ELSE dateStr

\* as computeDaysOverdue, with a cached 0 not taken as set
computeDaysOverdue_PositiveOnly(invoice, t) ==
  IF invoice.overdue_days # Null /\ invoice.overdue_days > 0
  THEN invoice.overdue_days
  ELSE IF parseDateOnly(invoice.due_date) = Null THEN 0
  ELSE Max(0, (t - parseDateOnly(invoice.due_date) * ClockPerDay) \div ClockPerDay)

\* the row's overdue_days when it is a number >= 0, else derived from due_date
computeDaysOverdue(invoice, t) ==
  IF invoice.overdue_days # Null /\ invoice.overdue_days >= 0
  THEN invoice.overdue_days
  ELSE IF parseDateOnly(invoice.due_date) = Null THEN 0
  ELSE Max(0, (t - parseDateOnly(invoice.due_date) * ClockPerDay) \div ClockPerDay)

\* Math.abs(a - b), in the unit of the clock (hundredths of an hour)
diffHours(a, b) == IF a >= b THEN a - b ELSE b - a

\* as maxChaseCount, with the default 4 taken when the value does not parse
maxChaseCount_DefaultOnNaN(configMap) ==
  LET parsed == parseInt(ConfigGetOr(configMap, "max_chase_count", <<"4">>))
  IN  IF parsed.nan THEN [nan |-> FALSE, val |-> 4] ELSE parsed

maxChaseCount(configMap) == parseInt(ConfigGetOr(configMap, "max_chase_count", <<"4">>))

\* as chaseEnabled, comparing the stored string with the boolean false, which
\* no string equals
chaseEnabled_ComparesBoolean(configMap) ==
  ConfigGetOr(configMap, "chase_enabled", STR_TRUE) # <<FALSE>>

chaseEnabled(configMap) == ConfigGetOr(configMap, "chase_enabled", STR_TRUE) # STR_FALSE

\* invoice.chase_paused === 1 || === true; the column is undefined on a row
\* that was selected without it
RowPaused(invoice) ==
  "chase_paused" \in DOMAIN invoice /\ invoice.chase_paused = 1

\* if (requiredIntervalHours == null) return false
GateBelowThreshold(daysOverdue) ==
  getIntervalHoursForOverdueDays(daysOverdue) = Null

\* if (!chaseEnabled) return false
GateDisabled(configMap) == ~chaseEnabled(configMap)

\* as GatePaused, with the bypassPaused option ignored
GatePaused_IgnoresBypass(invoice, options) ==
  RowPaused(invoice)

\* if (!options.bypassPaused && (chase_paused === 1 || chase_paused === true)) return false
GatePaused(invoice, options) ==
  ~options.bypassPaused /\ RowPaused(invoice)

\* as GateCapped, with > in place of >=
GateCapped_OffByOne(invoice, configMap) ==
  LET cap == maxChaseCount(configMap)
  IN  ~cap.nan /\ invoice.chase_count > cap.val

\* if (!isNaN(maxChaseCount) && currentCount >= maxChaseCount) return false
GateCapped(invoice, configMap) ==
  LET cap == maxChaseCount(configMap)
  IN  ~cap.nan /\ invoice.chase_count >= cap.val

\* new Date(invoice.last_chase_date): the column holds what CURRENT_TIMESTAMP
\* wrote, 'YYYY-MM-DD HH:MM:SS' in UTC without a zone, and a text of that form
\* is read as local time, so the instant read is the stored one minus the
\* offset of the process's zone
NewDate(stored) == stored - tz

\* if (!options.bypassInterval && invoice.last_chase_date)
\*   if (hoursSince < requiredIntervalHours - 0.01) return false
\* Both sides are in hundredths of an hour, so the tolerance is 1.
GateInterval(invoice, options, daysOverdue, t) ==
  /\ ~options.bypassInterval
  /\ invoice.last_chase_date # Null
  /\ diffHours(t, NewDate(invoice.last_chase_date))
       < getIntervalHoursForOverdueDays(daysOverdue) * HundredthsPerHour - 1

\* as Gate, with the cap checked before the pause flag
Gate_CapBeforePause(invoice, configMap, options, t) ==
  LET daysOverdue == computeDaysOverdue(invoice, t)
  IN  IF GateBelowThreshold(daysOverdue) THEN "below_threshold"
      ELSE IF GateDisabled(configMap) THEN "disabled"
      ELSE IF GateCapped(invoice, configMap) THEN "capped"
      ELSE IF GatePaused(invoice, options) THEN "paused"
      ELSE IF GateInterval(invoice, options, daysOverdue, t) THEN "interval"
      ELSE "eligible"

\* The synchronous gates of maybeSendChase, in the order of the code.
Gate(invoice, configMap, options, t) ==
  LET daysOverdue == computeDaysOverdue(invoice, t)
  IN  IF GateBelowThreshold(daysOverdue) THEN "below_threshold"
      ELSE IF GateDisabled(configMap) THEN "disabled"
      ELSE IF GatePaused(invoice, options) THEN "paused"
      ELSE IF GateCapped(invoice, configMap) THEN "capped"
      ELSE IF GateInterval(invoice, options, daysOverdue, t) THEN "interval"
      ELSE "eligible"

(***************************************************************************)
(* Store rows.                                                             *)
(***************************************************************************)
NoRow == [id |-> 0]

DefaultOptions == [bypassPaused |-> FALSE, bypassInterval |-> FALSE]
ExpediteOptions == [bypassPaused |-> TRUE, bypassInterval |-> TRUE]

\* a row of invoices that has not been inserted yet
AbsentInvoice ==
  [present |-> FALSE, status |-> "unpaid", due_date |-> Null, overdue_days |-> 0,
   last_chase_date |-> Null, chase_count |-> 0, chase_paused |-> 0]

\* SELECT * FROM invoices WHERE id = $1
SelectInvoice(id) ==
  [id |-> id, status |-> invoices[id].status, due_date |-> invoices[id].due_date,
   overdue_days |-> invoices[id].overdue_days,
   last_chase_date |-> invoices[id].last_chase_date,
   chase_count |-> invoices[id].chase_count,
   chase_paused |-> invoices[id].chase_paused]

\* the column list of selectCandidateInvoices: chase_paused is not selected
CandidateRow(id) ==
  [id |-> id, status |-> invoices[id].status, due_date |-> invoices[id].due_date,
   overdue_days |-> invoices[id].overdue_days,
   last_chase_date |-> invoices[id].last_chase_date,
   chase_count |-> invoices[id].chase_count]

\* due_date < CURRENT_DATE as the store compares the two texts: '' is below
\* every date, a text that starts with a letter above, NULL compares to nothing
DueBeforeToday(due_date, t) ==
  IF due_date = Null THEN FALSE
  ELSE IF due_date = DUE_EMPTY THEN TRUE
  ELSE IF due_date = DUE_NOT_A_DATE THEN FALSE
  ELSE due_date < t \div ClockPerDay

\* as IsCandidate, with 'overdue' missing from the status list
IsCandidate_UnpaidOnly(id) ==
  /\ invoices[id].present
  /\ invoices[id].status \in {"unpaid"}
  /\ DueBeforeToday(invoices[id].due_date, now)

\* WHERE status IN ('unpaid','overdue') AND due_date < CURRENT_DATE
IsCandidate(id) ==
  /\ invoices[id].present
  /\ invoices[id].status \in {"unpaid", "overdue"}
  /\ DueBeforeToday(invoices[id].due_date, now)

RECURSIVE RowsOf(_)
\* the candidate rows in id order
RowsOf(ids) ==
  IF ids = {} THEN <<>>
  ELSE LET m == CHOOSE x \in ids : \A y \in ids : x <= y
       IN  <<CandidateRow(m)>> \o RowsOf(ids \ {m})

selectCandidateInvoices == RowsOf({id \in InvoiceIds : IsCandidate(id)})

\* invoices.customer_email of the row
CustomerEmail(id) == IF id = 1 THEN "customer1@example.com" ELSE "customer2@example.com"
\* process.env.TEST_EMAIL_RECIPIENT || 'david@rawlings.us'
TEST_EMAIL_RECIPIENT == "david@rawlings.us"

\* the indexes of the chase_emails rows of an invoice
RecordsOf(id) == {i \in 1..Len(chase_emails) : chase_emails[i].invoice_id = id}

\* emailContent before generateChaseEmail has resolved
NoEmail == [subject |-> <<>>, body |-> <<>>]

\* The { subject, body } generateChaseEmail resolves to: text written for this
\* invoice and this number of days overdue.
GeneratedEmail(invoice, daysOverdue) ==
  [subject |-> <<"subject", invoice.id, daysOverdue>>,
   body |-> <<"body", invoice.id, daysOverdue>>]

\* The state of one handler.  pc is its position: the await it stands at.
\* For a caller of maybeSendChase, invoice, options, daysOverdue,
\* requiredIntervalHours, emailContent and ret are the locals of
\* maybeSendChase, recipientEmail the address sendChaseEmail handed to
\* sendEmail, skipped the gate whose 'Skipping (...)' line it logged
\* before returning false, error the call whose exception ended it; queue, sentCount
\* and totalCandidates are the locals of processOverdueChasing; response is
\* what the caller finally answers.  The sync keeps the `now` that
\* getOverdueInvoices read when it was called in called_at, the ids of the
\* overdue invoices of invoices.data it has yet to look the customer up for
\* in data, its listing in queue and the listed invoice of the iteration in
\* invoice; the payment handler
\* keeps the id of the paid invoice in invoice.  Three fields only observe the store and
\* are read by no action: count_at_entry and records_at_entry are the stored
\* chase_count and the number of chase_emails rows of the invoice when the
\* evaluation began, paused_at_read the ids whose stored chase_paused was set
\* when the batch selected its candidates.
IdleWorker ==
  [pc |-> "idle", invoice |-> NoRow, options |-> DefaultOptions, daysOverdue |-> 0,
   requiredIntervalHours |-> Null, emailContent |-> NoEmail,
   recipientEmail |-> "",
   queue |-> <<>>, sentCount |-> 0, totalCandidates |-> 0, ret |-> "none",
   skipped |-> "none", error |-> "none", response |-> "none",
   count_at_entry |-> 0, records_at_entry |-> 0, paused_at_read |-> {},
   called_at |-> Null, data |-> <<>>]

\* as BetweenEvaluations, with the loop left once an evaluation has thrown
BetweenEvaluations_StopsAfterError(wk) ==
  [IdleWorker EXCEPT !.queue = IF wk.ret = "threw" THEN <<>> ELSE wk.queue,
                     !.sentCount = wk.sentCount,
                     !.totalCandidates = wk.totalCandidates,
                     !.paused_at_read = wk.paused_at_read]

\* The worker once a call of maybeSendChase is over: the locals of the call
\* are gone, the locals of the caller stay.
BetweenEvaluations(wk) ==
  [IdleWorker EXCEPT !.queue = wk.queue, !.sentCount = wk.sentCount,
                     !.totalCandidates = wk.totalCandidates,
                     !.paused_at_read = wk.paused_at_read]

(***************************************************************************)
(* Initial state: seeded configuration, empty tables, nobody running.      *)
(***************************************************************************)
Init ==
  /\ tz \in TimeZoneOffsets
  /\ now = StartNow
  /\ \E mc \in MaxChaseCountValues, ce \in ChaseEnabledValues :
       config = [max_chase_count |-> mc, chase_enabled |-> ce]
  /\ invoices = [id \in InvoiceIds |-> AbsentInvoice]
  /\ chase_emails = <<>>
  /\ delivered = [id \in InvoiceIds |-> 0]
  /\ workers = [w \in Workers |-> IdleWorker]

(***************************************************************************)
(* Environment: clock, billing sync, webhooks, operator pause.             *)
(***************************************************************************)
Advance(limit) ==
  /\ now + TickHours <= limit
  /\ now' = now + TickHours
  /\ UNCHANGED <<tz, config, invoices, chase_emails, delivered, workers>>

Tick == Advance(MaxNow)

\* getOverdueInvoices: days overdue of an open Stripe invoice by the `now`
\* the function read when it was called
StripeOverdueDays(t) == (t - DueAt) \div ClockPerDay

\* the entry getOverdueInvoices pushes for an open invoice that is overdue
ListedInvoice(id, t) ==
  [id |-> id, due_date |-> DueAt \div ClockPerDay, overdue_days |-> StripeOverdueDays(t),
   status |-> "overdue"]

RECURSIVE IdsInOrder(_)
\* invoices.data in id order
IdsInOrder(ids) ==
  IF ids = {} THEN <<>>
  ELSE LET m == CHOOSE x \in ids : \A y \in ids : x <= y
       IN  <<m>> \o IdsInOrder(ids \ {m})

\* syncInvoices calls getOverdueInvoices, which reads now = new Date() and
\* awaits stripe.invoices.list
SyncStart ==
  /\ workers[SYNC].pc \in {"idle", "done"}
  /\ workers' = [workers EXCEPT ![SYNC] =
       [IdleWorker EXCEPT !.pc = "sync_list", !.called_at = now]]
  /\ UNCHANGED <<tz, now, config, invoices, chase_emails, delivered>>

\* The answer of stripe.invoices.list: the open invoices that are overdue by
\* the now of the call (due_date < now and overdueDays > 0) are kept, and the
\* customer of the first is looked up; with none the empty listing returns
\* to syncInvoices.
SyncList ==
  /\ workers[SYNC].pc = "sync_list"
  /\ LET t == workers[SYNC].called_at
         overdue == {id \in TrackedIds : DueAt < t /\ StripeOverdueDays(t) > 0}
     IN  workers' = [workers EXCEPT ![SYNC] =
           IF overdue = {}
           THEN [IdleWorker EXCEPT !.pc = "sync_select"]
           ELSE [@ EXCEPT !.pc = "sync_customer", !.data = IdsInOrder(overdue)]]
  /\ UNCHANGED <<tz, now, config, invoices, chase_emails, delivered>>

\* The answer of stripe.customers.retrieve: the entry of the invoice is
\* pushed, with the days overdue of the now of the call; after the last one
\* getOverdueInvoices returns the listing to syncInvoices.
SyncCustomer ==
  /\ workers[SYNC].pc = "sync_customer"
  /\ LET wk == workers[SYNC]
         listing == Append(wk.queue, ListedInvoice(Head(wk.data), wk.called_at))
     IN  workers' = [workers EXCEPT ![SYNC] =
           IF Tail(wk.data) = <<>>
           THEN [IdleWorker EXCEPT !.pc = "sync_select", !.queue = listing]
           ELSE [@ EXCEPT !.queue = listing, !.data = Tail(wk.data)]]
  /\ UNCHANGED <<tz, now, config, invoices, chase_emails, delivered>>

\* The next iteration of the loop of syncInvoices, up to the answer of
\* SELECT * FROM invoices WHERE stripe_invoice_id = $1, which decides the
\* branch; or the return of the counts once the listing is used up.
SyncSelect ==
  /\ workers[SYNC].pc = "sync_select"
  /\ workers' = [workers EXCEPT ![SYNC] =
       IF @.queue = <<>>
       THEN [IdleWorker EXCEPT !.pc = "done", !.response = "returned"]
       ELSE [@ EXCEPT !.invoice = Head(workers[SYNC].queue),
                      !.queue = Tail(workers[SYNC].queue),
                      !.pc = IF invoices[Head(workers[SYNC].queue).id].present
                             THEN "sync_update" ELSE "sync_insert"]]
  /\ UNCHANGED <<tz, now, config, invoices, chase_emails, delivered>>

\* The INSERT of the branch existingInvoice.rows.length === 0.  A row another
\* writer has inserted since the SELECT violates the UNIQUE key of
\* stripe_invoice_id: the query throws and syncInvoices rethrows.
SyncInsert ==
  /\ workers[SYNC].pc = "sync_insert"
  /\ LET listed == workers[SYNC].invoice
     IN  IF invoices[listed.id].present
         THEN /\ invoices' = invoices
              /\ workers' = [workers EXCEPT ![SYNC] =
                   [IdleWorker EXCEPT !.pc = "done", !.error = "store",
                                      !.response = "thrown"]]
         ELSE /\ invoices' = [invoices EXCEPT ![listed.id] =
                   [AbsentInvoice EXCEPT !.present = TRUE, !.status = listed.status,
                                          !.due_date = listed.due_date,
                                          !.overdue_days = listed.overdue_days]]
              /\ workers' = [workers EXCEPT ![SYNC] =
                   [@ EXCEPT !.pc = "sync_select", !.invoice = NoRow]]
  /\ UNCHANGED <<tz, now, config, chase_emails, delivered>>

\* The UPDATE of the other branch: overdue_days and status of the listing
\* replace the stored ones.
SyncUpdate ==
  /\ workers[SYNC].pc = "sync_update"
  /\ LET listed == workers[SYNC].invoice
     IN  invoices' = [invoices EXCEPT ![listed.id] =
           IF @.present
           THEN [@ EXCEPT !.overdue_days = listed.overdue_days, !.status = listed.status]
           ELSE @]
  /\ workers' = [workers EXCEPT ![SYNC] =
       [@ EXCEPT !.pc = "sync_select", !.invoice = NoRow]]
  /\ UNCHANGED <<tz, now, config, chase_emails, delivered>>

\* handleInvoiceCreated (the invoice.created event): the row is inserted
\* with the Stripe status and overdue_days 0; ON CONFLICT DO NOTHING leaves
\* an existing row alone.
HandleInvoiceCreated(id) ==
  /\ ~invoices[id].present
  /\ invoices' = [invoices EXCEPT ![id] =
       [AbsentInvoice EXCEPT !.present = TRUE, !.status = "open",
                              !.due_date = DueAt \div ClockPerDay,
                              !.overdue_days = 0]]
  /\ UNCHANGED <<tz, now, config, chase_emails, delivered, workers>>

\* as updateInvoiceStatus, with the chase counter reset by the status change
updateInvoiceStatus_ResetsCount(id, status) ==
  [invoices EXCEPT ![id] =
     IF @.present THEN [@ EXCEPT !.status = status, !.chase_count = 0] ELSE @]

\* UPDATE invoices SET status = $1, paid_date = $2 WHERE stripe_invoice_id = $4
updateInvoiceStatus(id, status) ==
  [invoices EXCEPT ![id] = IF @.present THEN [@ EXCEPT !.status = status] ELSE @]

\* as CancelPending, without AND status = 'pending' in the WHERE clause
CancelPending_AnyStatus(id) ==
  [i \in 1..Len(chase_emails) |->
     IF chase_emails[i].invoice_id = id
     THEN [chase_emails[i] EXCEPT !.status = "cancelled"]
     ELSE chase_emails[i]]

\* UPDATE chase_emails SET status = 'cancelled' WHERE invoice_id = .. AND status = 'pending'
CancelPending(id) ==
  [i \in 1..Len(chase_emails) |->
     IF chase_emails[i].invoice_id = id /\ chase_emails[i].status = "pending"
     THEN [chase_emails[i] EXCEPT !.status = "cancelled"]
     ELSE chase_emails[i]]

\* handlePaymentSucceeded up to the return of updateInvoiceStatus(.., 'paid');
\* when the store fails (~ok) the exception leaves the handler
HandlePaymentSucceeded(id, ok) ==
  /\ workers[WEBHOOK].pc \in {"idle", "done"}
  /\ invoices[id].present
  /\ invoices' = IF ok THEN updateInvoiceStatus(id, "paid") ELSE invoices
  /\ workers' = [workers EXCEPT ![WEBHOOK] =
       IF ok THEN [IdleWorker EXCEPT !.pc = "cancel", !.invoice = [id |-> id]]
       ELSE [IdleWorker EXCEPT !.pc = "done", !.error = "store", !.response = "thrown"]]
  /\ UNCHANGED <<tz, now, config, chase_emails, delivered>>

\* The second statement of handlePaymentSucceeded, the UPDATE of the pending
\* records; when the store fails (~ok) the invoice stays paid with its
\* records as they were and the exception leaves the handler.
CancelPendingChases(ok) ==
  /\ workers[WEBHOOK].pc = "cancel"
  /\ chase_emails' = IF ok THEN CancelPending(workers[WEBHOOK].invoice.id)
                     ELSE chase_emails
  /\ workers' = [workers EXCEPT ![WEBHOOK] =
       IF ok THEN [IdleWorker EXCEPT !.pc = "done", !.response = "returned"]
       ELSE [IdleWorker EXCEPT !.pc = "done", !.error = "store", !.response = "thrown"]]
  /\ UNCHANGED <<tz, now, config, invoices, delivered>>

HandlePaymentFailed(id) ==
  /\ invoices[id].present
  /\ invoices' = updateInvoiceStatus(id, "unpaid")
  /\ UNCHANGED <<tz, now, config, chase_emails, delivered, workers>>

\* POST /api/invoices/:id/pause { paused }
Pause(id, paused) ==
  /\ invoices[id].present
  /\ invoices' = [invoices EXCEPT ![id].chase_paused = IF paused THEN 1 ELSE 0]
  /\ UNCHANGED <<tz, now, config, chase_emails, delivered, workers>>


(***************************************************************************)
(* The overdue listing.                                                    *)
(***************************************************************************)
\* Math.ceil(a / b) for b > 0
CeilDiv(a, b) == -((-a) \div b)

\* computeNextChaseInfo of routes/health.js at the time t.  Number.isFinite
\* holds of every number, a negative one included, and not of null.
computeNextChaseInfo(invoice, t) ==
  LET daysOverdue == IF invoice.overdue_days # Null THEN invoice.overdue_days ELSE 0
      hoursInterval == IF daysOverdue >= 10 THEN 24
                       ELSE IF daysOverdue >= 7 THEN 48
                       ELSE IF daysOverdue >= 5 THEN 72
                       ELSE Null
      nextDate == IF invoice.last_chase_date # Null
                  THEN NewDate(invoice.last_chase_date) + hoursInterval * HundredthsPerHour
                  ELSE t
  IN  IF hoursInterval = Null
      THEN [next_chase_date |-> Null, days_until_next_chase |-> Null]
      ELSE [next_chase_date |-> nextDate,
            days_until_next_chase |-> Max(0, CeilDiv(nextDate - t, ClockPerDay))]

\* GET /api/invoices/overdue: the listed rows, each with its next-chase info
GetOverdue ==
  /\ workers' = [workers EXCEPT ![VIEWER] =
       [IdleWorker EXCEPT !.pc = "done",
                          !.response =
                             [id \in {i \in InvoiceIds : IsCandidate(i)} |->
                                computeNextChaseInfo(SelectInvoice(id), now)]]]
  /\ UNCHANGED <<tz, now, config, invoices, chase_emails, delivered>>

(***************************************************************************)
(* maybeSendChase, one step per await.                                     *)
(***************************************************************************)
\* Worker wk enters maybeSendChase with the row and the options: the
\* synchronous gates either return false or lead to the first await, the
\* payment-link lookup (every caller passes paymentLink = null).
EnterMaybeSendChase(wk, row, options) ==
  LET g == Gate(row, config, options, now)
  IN  [wk EXCEPT !.invoice = row, !.options = options,
                 !.daysOverdue = computeDaysOverdue(row, now),
                 !.requiredIntervalHours =
                    getIntervalHoursForOverdueDays(computeDaysOverdue(row, now)),
                 !.emailContent = NoEmail, !.recipientEmail = "", !.error = "none",
                 !.skipped = IF g = "eligible" THEN "none" ELSE g,
                 !.count_at_entry = invoices[row.id].chase_count,
                 !.records_at_entry = Cardinality(RecordsOf(row.id)),
                 !.ret = IF g = "eligible" THEN "none" ELSE "false",
                 !.pc = IF g = "eligible" THEN "link" ELSE "returned"]

\* POST /api/invoices/:id/expedite up to the answer of SELECT * FROM invoices:
\* 404 when there is no row, 500 when the query fails (~ok), else the route
\* holds the row and goes on to read the configuration
ExpediteStart(w, id, ok) ==
  /\ w \in Expediters
  /\ workers[w].pc \in {"idle", "done"}
  /\ invoices[id].chase_count < MaxCount
  /\ delivered[id] < MaxCount
  /\ workers' = [workers EXCEPT ![w] =
       IF ~ok
       THEN [IdleWorker EXCEPT !.pc = "done", !.error = "store", !.response = "500"]
       ELSE IF ~invoices[id].present
       THEN [IdleWorker EXCEPT !.pc = "done", !.ret = "404", !.response = "404"]
       ELSE [IdleWorker EXCEPT !.pc = "config", !.invoice = SelectInvoice(id)]]
  /\ UNCHANGED <<tz, now, config, invoices, chase_emails, delivered>>

\* The route from the answer of SELECT key, value FROM app_config to the
\* first await of maybeSendChase, which is called on the row read before:
\* 500 when the query fails (~ok)
ExpediteEvaluate(w, ok) ==
  /\ w \in Expediters
  /\ workers[w].pc = "config"
  /\ workers' = [workers EXCEPT ![w] =
       IF ok THEN EnterMaybeSendChase(IdleWorker, workers[w].invoice, ExpediteOptions)
       ELSE [IdleWorker EXCEPT !.pc = "done", !.error = "store", !.response = "500"]]
  /\ UNCHANGED <<tz, now, config, invoices, chase_emails, delivered>>

\* a direct call maybeSendChase(invoice, configMap, null, options) on a fresh row
EvaluateStart(w, id, options) ==
  /\ w = DIRECT
  /\ workers[w].pc \in {"idle", "done"}
  /\ invoices[id].present
  /\ invoices[id].chase_count < MaxCount
  /\ delivered[id] < MaxCount
  /\ workers' = [workers EXCEPT ![w] =
       EnterMaybeSendChase(IdleWorker, SelectInvoice(id), options)]
  /\ UNCHANGED <<tz, now, config, invoices, chase_emails, delivered>>

\* processOverdueChasing up to the answer of getAppConfigMap.  No handler
\* writes app_config, so the map the run holds from here on is config.  When
\* the query fails (~ok) the outer catch rethrows to the caller.
BatchStart(ok) ==
  /\ workers[BATCH].pc \in {"idle", "done"}
  /\ \A id \in InvoiceIds : invoices[id].chase_count < MaxCount
  /\ \A id \in InvoiceIds : delivered[id] < MaxCount
  /\ workers' = [workers EXCEPT ![BATCH] =
       IF ok THEN [IdleWorker EXCEPT !.pc = "candidates"]
       ELSE [IdleWorker EXCEPT !.pc = "done", !.error = "store",
                               !.response = "thrown"]]
  /\ UNCHANGED <<tz, now, config, invoices, chase_emails, delivered>>

\* The answer of selectCandidateInvoices, a second await: the rows are those
\* of the store at this moment.  When the query fails (~ok) the outer catch
\* rethrows to the caller.
BatchSelect(ok) ==
  /\ workers[BATCH].pc = "candidates"
  /\ \A id \in InvoiceIds : invoices[id].chase_count < MaxCount
  /\ \A id \in InvoiceIds : delivered[id] < MaxCount
  /\ LET rows == selectCandidateInvoices
     IN  workers' = [workers EXCEPT ![BATCH] =
           IF ok
           THEN [IdleWorker EXCEPT !.pc = "loop", !.queue = rows,
                                   !.totalCandidates = Len(rows),
                                   !.paused_at_read =
                                      {id \in InvoiceIds : IsCandidate(id)
                                                           /\ invoices[id].chase_paused = 1}]
           ELSE [IdleWorker EXCEPT !.pc = "done", !.error = "store",
                                   !.response = "thrown"]]
  /\ UNCHANGED <<tz, now, config, invoices, chase_emails, delivered>>

\* the next iteration of the for loop, or the return of the aggregate
BatchNext ==
  /\ workers[BATCH].pc = "loop"
  /\ workers' = [workers EXCEPT ![BATCH] =
       IF @.queue = <<>>
       THEN [@ EXCEPT !.pc = "done", !.response = "returned"]
       ELSE EnterMaybeSendChase([@ EXCEPT !.queue = Tail(@)], Head(@.queue),
                                DefaultOptions)]
  /\ UNCHANGED <<tz, now, config, invoices, chase_emails, delivered>>

\* what stripe.invoices.retrieve can answer in getPaymentLink: an invoice
\* with a hosted_invoice_url, one without, or an error
PaymentLinkAnswers == {"hosted_url", "no_url", "throws"}

\* The answer of stripe.invoices.retrieve in getPaymentLink: the hosted url
\* is the link; without one a payment link is created, a further await; an
\* error is rethrown by getPaymentLink, caught by maybeSendChase, and the
\* evaluation goes on without a link.
GetPaymentLink(w, answer) ==
  /\ workers[w].pc = "link"
  /\ workers' = [workers EXCEPT ![w] =
       [@ EXCEPT !.pc = IF answer = "no_url" THEN "link_create" ELSE "generate"]]
  /\ UNCHANGED <<tz, now, config, invoices, chase_emails, delivered>>

\* The answer of stripe.paymentLinks.create: its url is the link; an error
\* (~ok) is caught like the one above.
CreatePaymentLink(w, ok) ==
  /\ workers[w].pc = "link_create"
  /\ workers' = [workers EXCEPT ![w] = [@ EXCEPT !.pc = "generate"]]
  /\ UNCHANGED <<tz, now, config, invoices, chase_emails, delivered>>

\* The answer of aiEmailService.generateChaseEmail, which throws when the
\* generator fails
GenerateChaseEmail(w, ok) ==
  /\ workers[w].pc = "generate"
  /\ workers' = [workers EXCEPT ![w] =
       IF ok THEN [@ EXCEPT !.pc = "send",
                            !.emailContent = GeneratedEmail(workers[w].invoice,
                                                            workers[w].daysOverdue)]
       ELSE [@ EXCEPT !.pc = "returned", !.ret = "threw", !.error = "generate"]]
  /\ UNCHANGED <<tz, now, config, invoices, chase_emails, delivered>>

\* gmailService.sendChaseEmail, which throws when the delivery fails.  In
\* test mode (emailTestMode) the mail goes to the test recipient instead of
\* the customer.
SendChaseEmail(w, ok, emailTestMode) ==
  /\ workers[w].pc = "send"
  /\ delivered' = IF ok THEN [delivered EXCEPT ![workers[w].invoice.id] = @ + 1]
                  ELSE delivered
  /\ workers' = [workers EXCEPT ![w] =
       IF ok THEN [@ EXCEPT !.pc = "insert",
                            !.recipientEmail =
                               IF emailTestMode THEN TEST_EMAIL_RECIPIENT
                               ELSE CustomerEmail(workers[w].invoice.id)]
       ELSE [@ EXCEPT !.pc = "returned", !.ret = "threw", !.error = "send"]]
  /\ UNCHANGED <<tz, now, config, invoices, chase_emails>>

\* the row INSERT INTO chase_emails (...) VALUES (.., CURRENT_TIMESTAMP, 'sent', ..) adds
ChaseEmailRow(invoice, daysOverdue, emailContent) ==
  [invoice_id |-> invoice.id, overdue_day |-> daysOverdue, sent_at |-> now,
   status |-> "sent", subject_line |-> emailContent.subject,
   generated_text |-> emailContent.body, sent_to |-> CustomerEmail(invoice.id)]

\* The INSERT of the record; when the store fails (~ok) the query throws out
\* of maybeSendChase.
InsertChaseEmail(w, ok) ==
  /\ workers[w].pc = "insert"
  /\ chase_emails' =
       IF ok
       THEN Append(chase_emails,
                   ChaseEmailRow(workers[w].invoice, workers[w].daysOverdue,
                                 workers[w].emailContent))
       ELSE chase_emails
  /\ workers' = [workers EXCEPT ![w] =
       IF ok THEN [@ EXCEPT !.pc = "update"]
       ELSE [@ EXCEPT !.pc = "returned", !.ret = "threw", !.error = "store"]]
  /\ UNCHANGED <<tz, now, config, invoices, delivered>>

\* as UpdateInvoiceAfterChase, without status = 'overdue' in the SET list
UpdateInvoiceAfterChase_KeepsStatus(id, daysOverdue) ==
  [invoices EXCEPT ![id] =
     IF @.present
     THEN [@ EXCEPT !.last_chase_date = now, !.chase_count = @ + 1,
                    !.overdue_days = daysOverdue]
     ELSE @]

\* UPDATE invoices SET last_chase_date = CURRENT_TIMESTAMP,
\*   chase_count = COALESCE(chase_count, 0) + 1, overdue_days = $1, status = 'overdue'
\* WHERE id = $2
UpdateInvoiceAfterChase(id, daysOverdue) ==
  [invoices EXCEPT ![id] =
     IF @.present
     THEN [@ EXCEPT !.last_chase_date = now, !.chase_count = @ + 1,
                    !.overdue_days = daysOverdue, !.status = "overdue"]
     ELSE @]

\* as UpdateInvoice, with chase_count written as the count of the row the
\* evaluation read, plus one, instead of an increment in the store
UpdateInvoice_FromSnapshot(w, ok) ==
  /\ workers[w].pc = "update"
  /\ invoices' =
       IF ok
       THEN [UpdateInvoiceAfterChase(workers[w].invoice.id, workers[w].daysOverdue)
               EXCEPT ![workers[w].invoice.id].chase_count =
                        workers[w].invoice.chase_count + 1]
       ELSE invoices
  /\ workers' = [workers EXCEPT ![w] =
       IF ok THEN [@ EXCEPT !.pc = "returned", !.ret = "true"]
       ELSE [@ EXCEPT !.pc = "returned", !.ret = "threw", !.error = "store"]]
  /\ UNCHANGED <<tz, now, config, chase_emails, delivered>>

\* The UPDATE of the invoice, a statement of its own after the INSERT; when
\* the store fails (~ok) the query throws out of maybeSendChase.
UpdateInvoice(w, ok) ==
  /\ workers[w].pc = "update"
  /\ invoices' =
       IF ok
       THEN UpdateInvoiceAfterChase(workers[w].invoice.id, workers[w].daysOverdue)
       ELSE invoices
  /\ workers' = [workers EXCEPT ![w] =
       IF ok THEN [@ EXCEPT !.pc = "returned", !.ret = "true"]
       ELSE [@ EXCEPT !.pc = "returned", !.ret = "threw", !.error = "store"]]
  /\ UNCHANGED <<tz, now, config, chase_emails, delivered>>

\* as ReturnToCaller, with the route answering { sent: false } to an exception
ReturnToCaller_HidesError(w) ==
  /\ workers[w].pc = "returned"
  /\ workers' = [workers EXCEPT ![w] =
       IF w = BATCH
       THEN [BetweenEvaluations(@) EXCEPT
               !.pc = "loop",
               !.sentCount = IF workers[w].ret = "true" THEN @ + 1 ELSE @]
       ELSE [IdleWorker EXCEPT
               !.pc = "done", !.error = workers[w].error,
               !.response = IF workers[w].ret = "true" THEN "sent_true"
                            ELSE "sent_false"]]
  /\ UNCHANGED <<tz, now, config, invoices, chase_emails, delivered>>

\* What the caller does with the outcome of maybeSendChase:
\*   processOverdueChasing counts a send, logs an exception, and loops on;
\*   the expedite route answers { sent } or 500.
ReturnToCaller(w) ==
  /\ workers[w].pc = "returned"
  /\ workers' = [workers EXCEPT ![w] =
       IF w = BATCH
       THEN [BetweenEvaluations(@) EXCEPT
               !.pc = "loop",
               !.sentCount = IF workers[w].ret = "true" THEN @ + 1 ELSE @]
       ELSE [IdleWorker EXCEPT
               !.pc = "done", !.error = workers[w].error,
               !.response = IF workers[w].ret = "true" THEN "sent_true"
                            ELSE IF workers[w].ret = "false" THEN "sent_false"
                            ELSE "500"]]
  /\ UNCHANGED <<tz, now, config, invoices, chase_emails, delivered>>

(***************************************************************************)
(* The concurrent specification: one tracked invoice that the sync or the  *)
(* invoice.created event inserts, and the scheduled batch and one operator *)
(* racing on it while the operator pauses and resumes it.  The generator,  *)
(* the delivery and the queries the two callers make before the evaluation *)
(* may fail; the store answers the queries of the evaluation.              *)
(***************************************************************************)
Concurrent == {BATCH} \cup Expediters

Next ==
  \/ Tick
  \/ SyncStart
  \/ SyncList
  \/ SyncCustomer
  \/ SyncSelect
  \/ SyncInsert
  \/ SyncUpdate
  \/ \E id \in TrackedIds : HandleInvoiceCreated(id)
  \/ \E id \in InvoiceIds, paused \in BOOLEAN : Pause(id, paused)
  \/ \E w \in Expediters, id \in InvoiceIds, ok \in BOOLEAN : ExpediteStart(w, id, ok)
  \/ \E w \in Expediters, ok \in BOOLEAN : ExpediteEvaluate(w, ok)
  \/ \E ok \in BOOLEAN : BatchStart(ok)
  \/ \E ok \in BOOLEAN : BatchSelect(ok)
  \/ BatchNext
  \/ \E w \in Concurrent, answer \in PaymentLinkAnswers : GetPaymentLink(w, answer)
  \/ \E w \in Concurrent, ok \in BOOLEAN : CreatePaymentLink(w, ok)
  \/ \E w \in Concurrent, ok \in BOOLEAN : GenerateChaseEmail(w, ok)
  \/ \E w \in Concurrent, ok \in BOOLEAN : SendChaseEmail(w, ok, FALSE)
  \/ \E w \in Concurrent : InsertChaseEmail(w, TRUE)
  \/ \E w \in Concurrent : UpdateInvoice(w, TRUE)
  \/ \E w \in Concurrent : ReturnToCaller(w)

Spec == Init /\ [][Next]_vars

(***************************************************************************)
(* The operations specification: the payment webhooks, the operator's      *)
(* pause, the sync and the invoice.created event acting on the tracked     *)
(* invoice before, during and after an evaluation, by the batch or by an   *)
(* expedite, one evaluation at a time.  The two statements of the          *)
(* payment-succeeded handler may fail; the generator and the delivery      *)
(* answer.  The process runs in UTC: every chase of this specification is  *)
(* made at the last value of the clock, so that the zone in which          *)
(* last_chase_date is read decides no gate.                                *)
(***************************************************************************)
InitOps == Init /\ tz = UTC

\* no caller of maybeSendChase is between its first query and its answer
NoEvaluationRunning == \A w \in Concurrent : workers[w].pc \in {"idle", "done"}

NextOps ==
  \/ Tick
  \/ SyncStart
  \/ SyncList
  \/ SyncCustomer
  \/ SyncSelect
  \/ SyncInsert
  \/ SyncUpdate
  \/ \E id \in TrackedIds : HandleInvoiceCreated(id)
  \/ \E id \in InvoiceIds, ok \in BOOLEAN : HandlePaymentSucceeded(id, ok)
  \/ \E ok \in BOOLEAN : CancelPendingChases(ok)
  \/ \E id \in InvoiceIds : HandlePaymentFailed(id)
  \/ \E id \in InvoiceIds, paused \in BOOLEAN : Pause(id, paused)
  \/ \E w \in Expediters, id \in InvoiceIds :
       NoEvaluationRunning /\ ExpediteStart(w, id, TRUE)
  \/ \E w \in Expediters : ExpediteEvaluate(w, TRUE)
  \/ NoEvaluationRunning /\ BatchStart(TRUE)
  \/ BatchSelect(TRUE)
  \/ BatchNext
  \/ \E w \in Concurrent, answer \in PaymentLinkAnswers : GetPaymentLink(w, answer)
  \/ \E w \in Concurrent, ok \in BOOLEAN : CreatePaymentLink(w, ok)
  \/ \E w \in Concurrent : GenerateChaseEmail(w, TRUE)
  \/ \E w \in Concurrent : SendChaseEmail(w, TRUE, FALSE)
  \/ \E w \in Concurrent : InsertChaseEmail(w, TRUE)
  \/ \E w \in Concurrent : UpdateInvoice(w, TRUE)
  \/ \E w \in Concurrent : ReturnToCaller(w)

SpecOps == InitOps /\ [][NextOps]_vars

(***************************************************************************)
(* The evaluation specification: maybeSendChase called directly, one call  *)
(* at a time, on an invoice and a configuration drawn from the values the  *)
(* store can hold, with every combination of the bypass options.           *)
(***************************************************************************)
\* marks a key that has no row in app_config
ABSENT == <<"undefined">>
\* absent, '', '1', '2', '4', '2x', 'x', ' 2', '\r2', '+2' and '-1'
EvalMaxChaseCountValues ==
  {ABSENT, <<>>, <<"1">>, <<"2">>, <<"4">>, <<"2", "x">>, <<"x">>,
   <<" ", "2">>, <<"\r", "2">>, <<"+", "2">>, <<"-", "1">>}
EvalChaseEnabledValues == {ABSENT, STR_TRUE, STR_FALSE}
EvalStatuses == {"unpaid", "overdue", "paid"}
EvalOverdueDays == {0, 4, 5, 6, 7, 9, 10, 12}
AllOptions == [bypassPaused : BOOLEAN, bypassInterval : BOOLEAN]

\* the configMap built from the rows of app_config
ConfigMapOf(mc, ce) ==
  [k \in {x \in {"max_chase_count"} : mc # ABSENT} \cup {x \in {"chase_enabled"} : ce # ABSENT}
     |-> IF k = "max_chase_count" THEN mc ELSE ce]

InitEval ==
  /\ tz \in TimeZoneOffsets
  /\ now = StartNow
  /\ \E mc \in EvalMaxChaseCountValues, ce \in EvalChaseEnabledValues :
       config = ConfigMapOf(mc, ce)
  /\ \E st \in EvalStatuses, od \in EvalOverdueDays, cp \in {0, 1} :
       invoices = [id \in InvoiceIds |->
         IF id \in TrackedIds
         THEN [AbsentInvoice EXCEPT !.present = TRUE, !.status = st,
                                    !.due_date = DueAt \div ClockPerDay,
                                    !.overdue_days = od, !.chase_paused = cp]
         ELSE AbsentInvoice]
  /\ chase_emails = <<>>
  /\ delivered = [id \in InvoiceIds |-> 0]
  /\ workers = [w \in Workers |-> IdleWorker]

NextEval ==
  \/ Tick
  \/ \E id \in InvoiceIds, options \in AllOptions : EvaluateStart(DIRECT, id, options)
  \/ \E answer \in PaymentLinkAnswers : GetPaymentLink(DIRECT, answer)
  \/ \E ok \in BOOLEAN : CreatePaymentLink(DIRECT, ok)
  \/ \E ok \in BOOLEAN : GenerateChaseEmail(DIRECT, ok)
  \/ \E ok \in BOOLEAN, emailTestMode \in BOOLEAN :
       SendChaseEmail(DIRECT, ok, emailTestMode)
  \/ InsertChaseEmail(DIRECT, TRUE)
  \/ UpdateInvoice(DIRECT, TRUE)
  \/ ReturnToCaller(DIRECT)

SpecEval == InitEval /\ [][NextEval]_vars

(***************************************************************************)
(* The batch specification: the scheduled run alone, on two invoices that  *)
(* the sync inserted, on day 7.  The generator, the delivery and every     *)
(* query of the store may fail.                                            *)
(***************************************************************************)
\* overdue_days the last sync left on a row: synced on day 4 or on day 7
BatchOverdueDays == {StartNow \div ClockPerDay, (StartNow + TickHours) \div ClockPerDay}

InitBatch ==
  /\ tz \in TimeZoneOffsets
  /\ now = StartNow + TickHours
  /\ \E mc \in MaxChaseCountValues :
       config = [max_chase_count |-> mc, chase_enabled |-> STR_TRUE]
  /\ \E od \in [InvoiceIds -> BatchOverdueDays] :
       invoices = [id \in InvoiceIds |->
         [AbsentInvoice EXCEPT !.present = TRUE, !.status = "overdue",
                                !.due_date = DueAt \div ClockPerDay,
                                !.overdue_days = od[id]]]
  /\ chase_emails = <<>>
  /\ delivered = [id \in InvoiceIds |-> 0]
  /\ workers = [w \in Workers |-> IdleWorker]

NextBatch ==
  \/ \E ok \in BOOLEAN : BatchStart(ok)
  \/ \E ok \in BOOLEAN : BatchSelect(ok)
  \/ BatchNext
  \/ \E answer \in PaymentLinkAnswers : GetPaymentLink(BATCH, answer)
  \/ \E ok \in BOOLEAN : CreatePaymentLink(BATCH, ok)
  \/ \E ok \in BOOLEAN : GenerateChaseEmail(BATCH, ok)
  \/ \E ok \in BOOLEAN : SendChaseEmail(BATCH, ok, FALSE)
  \/ \E ok \in BOOLEAN : InsertChaseEmail(BATCH, ok)
  \/ \E ok \in BOOLEAN : UpdateInvoice(BATCH, ok)
  \/ ReturnToCaller(BATCH)

SpecBatch == InitBatch /\ [][NextBatch]_vars

(***************************************************************************)
(* The interval specification: maybeSendChase called directly on day 10 on *)
(* an invoice that was chased once, a drawn time ago.                      *)
(***************************************************************************)
NowInterval == 10 * ClockPerDay
\* time since the last chase, in hundredths of an hour: around each tier's
\* interval and its tolerance, and 30 h and 50 h
ElapsedValues == {0, 2398, 2399, 2400, 3000, 4798, 4799, 4800, 5000, 7198, 7199, 7200}
\* overdue_days the row caches: one value in each tier
IntervalOverdueDays == {5, 8, 10}

InitInterval ==
  /\ tz \in TimeZoneOffsets
  /\ now = NowInterval
  /\ config = [max_chase_count |-> <<"2">>, chase_enabled |-> STR_TRUE]
  /\ \E e \in ElapsedValues, od \in IntervalOverdueDays :
       /\ invoices = [id \in InvoiceIds |->
            IF id \in TrackedIds
            THEN [AbsentInvoice EXCEPT !.present = TRUE, !.status = "overdue",
                                       !.due_date = DueAt \div ClockPerDay,
                                       !.overdue_days = od,
                                       !.last_chase_date = NowInterval - e,
                                       !.chase_count = 1]
            ELSE AbsentInvoice]
       /\ chase_emails =
            [i \in TrackedIds |->
               [invoice_id |-> i, overdue_day |-> 5, sent_at |-> NowInterval - e,
                status |-> "sent", subject_line |-> GeneratedEmail([id |-> i], 5).subject,
                generated_text |-> GeneratedEmail([id |-> i], 5).body,
                sent_to |-> CustomerEmail(i)]]
  /\ delivered = [id \in InvoiceIds |-> IF id \in TrackedIds THEN 1 ELSE 0]
  /\ workers = [w \in Workers |-> IdleWorker]

NextInterval ==
  \/ \E id \in InvoiceIds, options \in AllOptions : EvaluateStart(DIRECT, id, options)
  \/ \E answer \in PaymentLinkAnswers : GetPaymentLink(DIRECT, answer)
  \/ \E ok \in BOOLEAN : CreatePaymentLink(DIRECT, ok)
  \/ \E ok \in BOOLEAN : GenerateChaseEmail(DIRECT, ok)
  \/ \E ok \in BOOLEAN : SendChaseEmail(DIRECT, ok, FALSE)
  \/ InsertChaseEmail(DIRECT, TRUE)
  \/ UpdateInvoice(DIRECT, TRUE)
  \/ ReturnToCaller(DIRECT)

SpecInterval == InitInterval /\ [][NextInterval]_vars

(***************************************************************************)
(* The days-overdue specification: the tracked invoice is inserted by the  *)
(* invoice.created event or by the sync and kept up to date by the sync,   *)
(* on day 4 and day 7; maybeSendChase is called directly, on the stored    *)
(* row or on an invoice object whose overdue_days and due_date are drawn.  *)
(***************************************************************************)
\* overdue_days of the invoice object handed to maybeSendChase: not a
\* number, negative, zero, positive
CachedDaysValues == {Null, -3, 0, 4, 7}
\* due_date of the invoice object handed to maybeSendChase: the empty text,
\* a text that is no date, and the day numbers of a past and of a future date
DueDateValues == {DUE_EMPTY, DUE_NOT_A_DATE, 0, 2, 20}

InitDays ==
  /\ tz \in TimeZoneOffsets
  /\ now = StartNow
  /\ config = [max_chase_count |-> <<"2">>, chase_enabled |-> STR_TRUE]
  /\ invoices = [id \in InvoiceIds |-> AbsentInvoice]
  /\ chase_emails = <<>>
  /\ delivered = [id \in InvoiceIds |-> 0]
  /\ workers = [w \in Workers |-> IdleWorker]

\* a direct call maybeSendChase(invoice, configMap, null, options) on an
\* invoice object of the caller's making: the stored row with the
\* overdue_days and the due_date the caller gives it
EvaluateRow(w, id, overdue_days, due_date, options) ==
  /\ w = DIRECT
  /\ workers[w].pc \in {"idle", "done"}
  /\ invoices[id].present
  /\ invoices[id].chase_count < MaxCount
  /\ delivered[id] < MaxCount
  /\ workers' = [workers EXCEPT ![w] =
       EnterMaybeSendChase(IdleWorker,
                           [SelectInvoice(id) EXCEPT !.overdue_days = overdue_days,
                                                     !.due_date = due_date],
                           options)]
  /\ UNCHANGED <<tz, now, config, invoices, chase_emails, delivered>>

NextDays ==
  \/ Tick
  \/ SyncStart
  \/ SyncList
  \/ SyncCustomer
  \/ SyncSelect
  \/ SyncInsert
  \/ SyncUpdate
  \/ \E id \in TrackedIds : HandleInvoiceCreated(id)
  \/ \E id \in InvoiceIds, options \in AllOptions : EvaluateStart(DIRECT, id, options)
  \/ \E id \in InvoiceIds, od \in CachedDaysValues, due \in DueDateValues,
        options \in AllOptions : EvaluateRow(DIRECT, id, od, due, options)
  \/ \E answer \in PaymentLinkAnswers : GetPaymentLink(DIRECT, answer)
  \/ \E ok \in BOOLEAN : CreatePaymentLink(DIRECT, ok)
  \/ \E ok \in BOOLEAN : GenerateChaseEmail(DIRECT, ok)
  \/ \E ok \in BOOLEAN : SendChaseEmail(DIRECT, ok, FALSE)
  \/ InsertChaseEmail(DIRECT, TRUE)
  \/ UpdateInvoice(DIRECT, TRUE)
  \/ ReturnToCaller(DIRECT)

SpecDays == InitDays /\ [][NextDays]_vars

(***************************************************************************)
(* The listing specification: the tracked invoice is inserted by the       *)
(* invoice.created event or by the sync and kept up to date by the sync,   *)
(* on day 4 and day 7; it is chased by direct calls of maybeSendChase on   *)
(* the stored row, and GET /api/invoices/overdue is read in between.       *)
(***************************************************************************)
NextListing ==
  \/ Tick
  \/ SyncStart
  \/ SyncList
  \/ SyncCustomer
  \/ SyncSelect
  \/ SyncInsert
  \/ SyncUpdate
  \/ \E id \in TrackedIds : HandleInvoiceCreated(id)
  \/ GetOverdue
  \/ \E id \in InvoiceIds, options \in AllOptions : EvaluateStart(DIRECT, id, options)
  \/ \E answer \in PaymentLinkAnswers : GetPaymentLink(DIRECT, answer)
  \/ \E ok \in BOOLEAN : CreatePaymentLink(DIRECT, ok)
  \/ \E ok \in BOOLEAN : GenerateChaseEmail(DIRECT, ok)
  \/ \E ok \in BOOLEAN : SendChaseEmail(DIRECT, ok, FALSE)
  \/ InsertChaseEmail(DIRECT, TRUE)
  \/ UpdateInvoice(DIRECT, TRUE)
  \/ ReturnToCaller(DIRECT)

SpecListing == InitDays /\ [][NextListing]_vars

(***************************************************************************)
(* The scheduled specification: the batch alone, triggered again and again *)
(* by the scheduler while the clock advances from day 4 to day 13, on an   *)
(* invoice that nobody pays or pauses, beside one that stays below the     *)
(* threshold.  The queries of the store, the generator and the delivery    *)
(* may each fail, and none of them fails forever.                          *)
(***************************************************************************)
\* overdue_days cached on the row: below the threshold, and one per tier
LiveOverdueDays == {4, 5, 7, 10}

InitLive ==
  /\ tz \in TimeZoneOffsets
  /\ now = StartNow
  /\ \E mc \in MaxChaseCountValues :
       config = [max_chase_count |-> mc, chase_enabled |-> STR_TRUE]
  /\ \E od \in LiveOverdueDays :
       invoices = [id \in InvoiceIds |->
         [AbsentInvoice EXCEPT !.present = TRUE, !.status = "unpaid",
                                !.due_date = DueAt \div ClockPerDay,
                                !.overdue_days = IF id = 1 THEN od ELSE 4]]
  /\ chase_emails = <<>>
  /\ delivered = [id \in InvoiceIds |-> 0]
  /\ workers = [w \in Workers |-> IdleWorker]

\* the clock of the scheduled specification: day 4, 7, 10 and 13
TickLive == Advance(LiveMaxNow)

\* the batch is about to record a delivery for an invoice of which fewer
\* than MaxLost deliveries have gone unrecorded
CommitMayFail ==
  /\ workers[BATCH].pc \in {"insert", "update"}
  /\ LET id == workers[BATCH].invoice.id
     IN  delivered[id] - invoices[id].chase_count <= MaxLost

NextLive ==
  \/ TickLive
  \/ \E ok \in BOOLEAN : BatchStart(ok)
  \/ \E ok \in BOOLEAN : BatchSelect(ok)
  \/ BatchNext
  \/ \E answer \in PaymentLinkAnswers : GetPaymentLink(BATCH, answer)
  \/ \E ok \in BOOLEAN : CreatePaymentLink(BATCH, ok)
  \/ \E ok \in BOOLEAN : GenerateChaseEmail(BATCH, ok)
  \/ \E ok \in BOOLEAN : SendChaseEmail(BATCH, ok, FALSE)
  \/ InsertChaseEmail(BATCH, TRUE)
  \/ CommitMayFail /\ InsertChaseEmail(BATCH, FALSE)
  \/ UpdateInvoice(BATCH, TRUE)
  \/ CommitMayFail /\ UpdateInvoice(BATCH, FALSE)
  \/ ReturnToCaller(BATCH)

\* The clock advances and cron fires the overdue check every 6 hours
\* (scheduleOverdueCheck); the loop and the return of an evaluation go on
\* and the payment-link lookups settle, with a link or an error; the two
\* queries of the run, the generator, the delivery and the two statements
\* of the commit each succeed infinitely often when they are made
\* infinitely often.
FairLive ==
  /\ WF_vars(TickLive)
  /\ SF_vars(BatchStart(TRUE))
  /\ SF_vars(BatchSelect(TRUE))
  /\ WF_vars(BatchNext)
  /\ WF_vars(\E answer \in PaymentLinkAnswers : GetPaymentLink(BATCH, answer))
  /\ WF_vars(\E ok \in BOOLEAN : CreatePaymentLink(BATCH, ok))
  /\ SF_vars(GenerateChaseEmail(BATCH, TRUE))
  /\ SF_vars(SendChaseEmail(BATCH, TRUE, FALSE))
  /\ SF_vars(InsertChaseEmail(BATCH, TRUE))
  /\ SF_vars(UpdateInvoice(BATCH, TRUE))
  /\ WF_vars(ReturnToCaller(BATCH))

SpecLive == InitLive /\ [][NextLive]_vars /\ FairLive

TypeOK ==
  /\ tz \in TimeZoneOffsets
  /\ now \in StartNow..LiveMaxNow
  /\ \A id \in InvoiceIds : invoices[id].chase_count \in 0..(MaxCount + 2)
  /\ \A w \in Workers :
       workers[w].pc \in {"idle", "candidates", "loop", "config", "link",
                          "link_create", "generate", "send", "insert",
                          "update", "returned", "done", "cancel", "sync_list",
                          "sync_customer", "sync_select",
                          "sync_insert", "sync_update"}

(***************************************************************************)
(* Vocabulary of the properties.                                           *)
(***************************************************************************)
\* w is inside maybeSendChase, past the gates
MidSend(w) ==
  workers[w].pc \in {"link", "link_create", "generate", "send", "insert", "update"}

\* the evaluation w ran last has returned or thrown
Finished(w) == workers[w].ret \in {"true", "false", "threw"}

\* the delivery of w's evaluation has gone out
HasDelivered(w) == workers[w].pc \in {"insert", "update"} \/ workers[w].ret = "true"

\* this step is the entry of w into maybeSendChase
EnterStep(w) ==
  /\ workers[w].pc \in {"idle", "done", "loop", "config"}
  /\ workers'[w].pc \in {"returned", "link"}

\* this step is the invoice UPDATE that ends w's evaluation
CommitStep(w) == workers[w].pc = "update" /\ workers'[w].pc = "returned"

\* this step leaves both tables and the outbox alone
StoreUnchanged == UNCHANGED <<invoices, chase_emails, delivered>>

SentRecords(id) ==
  {i \in 1..Len(chase_emails) :
     chase_emails[i].invoice_id = id /\ chase_emails[i].status = "sent"}

(***************************************************************************)
(* Concurrency of evaluations.                                             *)
(***************************************************************************)
\* C1: two evaluations of the same invoice that started from the same
\* chase state (same chase_count and last_chase_date) never both report
\* sent = true, and together they raise chase_count and the number of sent
\* records by at most one.
C1_NoDoubleSend ==
  \A w1 \in Concurrent, w2 \in Concurrent :
    ( /\ w1 # w2
      /\ Finished(w1) /\ Finished(w2)
      /\ workers[w1].invoice.id # 0
      /\ workers[w1].invoice.id = workers[w2].invoice.id
      /\ workers[w1].invoice.chase_count = workers[w2].invoice.chase_count
      /\ workers[w1].invoice.last_chase_date = workers[w2].invoice.last_chase_date )
    => /\ ~(workers[w1].ret = "true" /\ workers[w2].ret = "true")
       /\ invoices[workers[w1].invoice.id].chase_count
            <= workers[w1].invoice.chase_count + 1
       /\ Cardinality(SentRecords(workers[w1].invoice.id))
            <= workers[w1].invoice.chase_count + 1

\* C2: an evaluation whose invoice row has status paid or cancelled never
\* gets past the gates, so it neither sends nor writes.
C2_TerminalNeverSends ==
  \A w \in Concurrent :
    (workers[w].invoice.id # 0 /\ workers[w].invoice.status \in {"paid", "cancelled"})
    => (~MidSend(w) /\ workers[w].ret # "true")

\* C3: when the stored status has become paid since the evaluation read an
\* unpaid/overdue row, the commit steps of that evaluation (record insert,
\* invoice update) write nothing.
C3_PaidCommitRejected ==
  [][\A w \in Concurrent :
       ( /\ workers[w].pc \in {"insert", "update"}
         /\ workers'[w].pc # workers[w].pc
         /\ workers[w].invoice.status \in {"unpaid", "overdue"}
         /\ invoices[workers[w].invoice.id].status = "paid" )
       => ( /\ chase_emails' = chase_emails
            /\ invoices'[workers[w].invoice.id] = invoices[workers[w].invoice.id] )]_vars

(***************************************************************************)
(* Pause.                                                                  *)
(***************************************************************************)
\* C4: the batch never delivers a chase for an invoice whose stored
\* chase_paused was set when the batch selected its candidates.
C4_PausedNotBatchSent ==
  \A id \in workers[BATCH].paused_at_read :
    ~(workers[BATCH].invoice.id = id /\ HasDelivered(BATCH))

\* the row is eligible apart from its pause flag, at the time t, the time
\* since the last chase taken as the engine reads it
OtherwiseEligible(row, daysOverdue, t) ==
  /\ row.status \in {"unpaid", "overdue"}
  /\ daysOverdue >= 5
  /\ ConfigGetOr(config, "chase_enabled", STR_TRUE) = STR_TRUE
  /\ ~maxChaseCount(config).nan
  /\ row.chase_count < maxChaseCount(config).val
  /\ \/ row.last_chase_date = Null
     \/ diffHours(t, NewDate(row.last_chase_date))
          >= getIntervalHoursForOverdueDays(daysOverdue) * HundredthsPerHour - 1

\* C5: an evaluation of a paused, otherwise eligible row returns false and
\* writes nothing unless bypassPaused is set, and with bypassPaused set it
\* goes on to generate and send.
C5_PauseGate ==
  [][( /\ EnterStep(DIRECT)
       /\ workers'[DIRECT].invoice.chase_paused = 1
       /\ OtherwiseEligible(workers'[DIRECT].invoice, workers'[DIRECT].daysOverdue, now) )
     => IF workers'[DIRECT].options.bypassPaused
        THEN workers'[DIRECT].pc = "link"
        ELSE /\ workers'[DIRECT].pc = "returned"
             /\ workers'[DIRECT].ret = "false"
             /\ StoreUnchanged]_vars

\* a paused, otherwise eligible invoice was chased by an evaluation with bypassPaused
C5_Witness ==
  /\ workers[DIRECT].ret = "true"
  /\ workers[DIRECT].options.bypassPaused
  /\ ~workers[DIRECT].options.bypassInterval
  /\ workers[DIRECT].invoice.chase_paused = 1
  /\ workers[DIRECT].invoice.status \in {"unpaid", "overdue"}
  /\ workers[DIRECT].invoice.last_chase_date # Null
  /\ delivered[workers[DIRECT].invoice.id] >= 2

(***************************************************************************)
(* The cap.                                                                *)
(***************************************************************************)
\* C6: an evaluation of a row whose chase_count is at or above the parsed
\* max_chase_count returns false and writes nothing, whatever the options.
C6_CapNeverBypassed ==
  [][( /\ EnterStep(DIRECT)
       /\ ~maxChaseCount(config).nan
       /\ workers'[DIRECT].invoice.chase_count >= maxChaseCount(config).val )
     => ( /\ workers'[DIRECT].pc = "returned"
          /\ workers'[DIRECT].ret = "false"
          /\ StoreUnchanged )]_vars

\* an expedite-style evaluation of an enabled, old enough invoice was stopped by the cap
C6_Witness ==
  /\ workers[DIRECT].ret = "false"
  /\ workers[DIRECT].options = ExpediteOptions
  /\ workers[DIRECT].daysOverdue >= 5
  /\ chaseEnabled(config)
  /\ ~maxChaseCount(config).nan
  /\ workers[DIRECT].invoice.chase_count = maxChaseCount(config).val
  /\ workers[DIRECT].invoice.chase_count >= 1

\* C7: with an integer max_chase_count M, every invoice has chase_count <= M
\* and at most M records with status sent.
C7_CapInvariant ==
  \A id \in InvoiceIds :
    ~maxChaseCount(config).nan
    => /\ invoices[id].chase_count <= maxChaseCount(config).val
       /\ Cardinality(SentRecords(id)) <= maxChaseCount(config).val

(***************************************************************************)
(* The counter.                                                            *)
(***************************************************************************)
\* C8: the commit of an evaluation leaves chase_count exactly one above the
\* stored value the evaluation started from, and no step lowers chase_count.
C8_PlusOneAndMonotone ==
  [][ /\ \A w \in Concurrent :
           CommitStep(w)
           => invoices'[workers[w].invoice.id].chase_count
                = workers[w].count_at_entry + 1
      /\ \A id \in InvoiceIds :
           invoices'[id].chase_count >= invoices[id].chase_count ]_vars

\* C9: a step changes chase_count or last_chase_date of an existing invoice
\* only if it is the invoice update that ends an evaluation of that invoice.
C9_OnlyCommitWrites ==
  [][\A id \in InvoiceIds :
       ( /\ invoices[id].present
         /\ \/ invoices'[id].chase_count # invoices[id].chase_count
            \/ invoices'[id].last_chase_date # invoices[id].last_chase_date )
       => \E w \in Concurrent : CommitStep(w) /\ workers[w].invoice.id = id]_vars

\* an invoice chased once on day 7 has gone through a pause and a failed
\* payment notice and still has its counter and its last chase time
C9_Witness ==
  \E id \in InvoiceIds :
    /\ invoices[id].chase_count = 1
    /\ invoices[id].last_chase_date = StartNow + TickHours
    /\ invoices[id].status = "unpaid"
    /\ invoices[id].chase_paused = 1
    /\ \A w \in Concurrent : ~MidSend(w)

(***************************************************************************)
(* The threshold.                                                          *)
(***************************************************************************)
\* C10: an evaluation of an invoice fewer than 5 days overdue returns false
\* at once, whatever the options: it never reaches generation or delivery
\* and its entry step leaves the store unchanged.
C10_BelowThresholdNoOp ==
  [][( /\ EnterStep(DIRECT)
       /\ workers'[DIRECT].daysOverdue < 5 )
     => ( /\ workers'[DIRECT].pc = "returned"
          /\ workers'[DIRECT].ret = "false"
          /\ StoreUnchanged )]_vars

\* an expedite-style evaluation of a 4-days-overdue invoice returned false
C10_Witness ==
  /\ workers[DIRECT].pc = "returned"
  /\ workers[DIRECT].ret = "false"
  /\ workers[DIRECT].options = ExpediteOptions
  /\ workers[DIRECT].daysOverdue = 4
  /\ workers[DIRECT].invoice.status = "overdue"
  /\ workers[DIRECT].invoice.chase_paused = 0
  /\ chaseEnabled(config)

(***************************************************************************)
(* The interval policy.                                                    *)
(***************************************************************************)
\* C11: the required interval of an evaluation is a step function of its
\* days overdue with inclusive lower bounds: 24 h from day 10 on, 48 h on
\* days 7 to 9, 72 h on days 5 and 6, and none (null) below day 5.
C11_IntervalTiers ==
  LET d == workers[DIRECT].daysOverdue
      r == workers[DIRECT].requiredIntervalHours
  IN  workers[DIRECT].invoice.id # 0
      => /\ (d >= 10) => (r = 24)
         /\ (d >= 7 /\ d <= 9) => (r = 48)
         /\ (d >= 5 /\ d <= 6) => (r = 72)
         /\ (d < 5) => (r = Null)

\* an invoice 9 days overdue was chased under the 48 h tier
C11_Witness ==
  /\ workers[DIRECT].ret = "true"
  /\ workers[DIRECT].daysOverdue = 9
  /\ workers[DIRECT].requiredIntervalHours = 48

\* the row passes every gate that comes before the interval gate
PassesEarlierGates(row, options, daysOverdue) ==
  /\ daysOverdue >= 5
  /\ chaseEnabled(config)
  /\ options.bypassPaused \/ row.chase_paused # 1
  /\ maxChaseCount(config).nan \/ row.chase_count < maxChaseCount(config).val

\* C12: without bypassInterval, an evaluation of an invoice that was chased
\* before returns false and writes nothing when the time since the last
\* chase (the time the store recorded for it) is below the required
\* interval minus 0.01 h, and goes on to generate when it is at or above
\* that bound.
C12_IntervalGate ==
  [][( /\ EnterStep(DIRECT)
       /\ ~workers'[DIRECT].options.bypassInterval
       /\ workers'[DIRECT].invoice.last_chase_date # Null
       /\ PassesEarlierGates(workers'[DIRECT].invoice, workers'[DIRECT].options,
                             workers'[DIRECT].daysOverdue) )
     => LET elapsed == now - workers'[DIRECT].invoice.last_chase_date
            bound == workers'[DIRECT].requiredIntervalHours * HundredthsPerHour - 1
        IN  IF elapsed < bound
            THEN /\ workers'[DIRECT].pc = "returned"
                 /\ workers'[DIRECT].ret = "false"
                 /\ StoreUnchanged
            ELSE workers'[DIRECT].pc = "link"]_vars

(***************************************************************************)
(* Atomicity and failures.                                                 *)
(***************************************************************************)
\* some evaluation of the invoice stands between its INSERT and its UPDATE
CommitInProgress(id) ==
  \E w \in Workers : workers[w].pc = "update" /\ workers[w].invoice.id = id

\* C13: the sent record and the invoice update of an evaluation commit
\* together or not at all: outside a commit in progress, also after a store
\* failure between the two writes, every invoice has as many sent records
\* as its chase_count tells.
C13_AllOrNothing ==
  \A id \in InvoiceIds :
    ~CommitInProgress(id) => Cardinality(SentRecords(id)) = invoices[id].chase_count

\* C14: when the generator or the delivery fails, the step that fails writes
\* nothing (invoice fields, records and outbox stay as they are, so the next
\* batch run finds the invoice as it was), and the expedite request that ran
\* the evaluation answers with the error (500), not with sent = false.
C14_CollaboratorFailure ==
  [][ /\ \A w \in Concurrent :
           ( /\ workers[w].pc \in {"generate", "send"}
             /\ workers'[w].ret = "threw" )
           => ( /\ workers'[w].pc = "returned"
                /\ workers'[w].error \in {"generate", "send"}
                /\ StoreUnchanged )
      /\ \A w \in Expediters :
           ( /\ workers[w].pc = "returned"
             /\ workers[w].ret = "threw"
             /\ workers'[w].pc # "returned" )
           => ( /\ workers'[w].pc = "done"
                /\ workers'[w].response = "500" ) ]_vars

\* an expedite of the never-chased invoice failed in delivery and answered
\* 500; the invoice is untouched and the batch has found it eligible again
C14_Witness ==
  \E w \in Expediters : \E id \in TrackedIds :
    /\ workers[w].pc = "done"
    /\ workers[w].error = "send"
    /\ workers[w].response = "500"
    /\ invoices[id].chase_count = 0
    /\ invoices[id].last_chase_date = Null
    /\ delivered[id] = 0
    /\ workers[BATCH].pc = "generate"
    /\ workers[BATCH].invoice.id = id

\* C15: an evaluation that throws inside a batch run is logged and the run
\* goes on: the loop resumes with the same remaining candidates and the same
\* counters, every remaining candidate is evaluated in order, and the run
\* returns its aggregate normally, only once no candidate is left.
C15_BatchIsolation ==
  [][ /\ ( /\ workers[BATCH].pc = "returned"
           /\ workers[BATCH].ret = "threw"
           /\ workers'[BATCH].pc # "returned" )
         => ( /\ workers'[BATCH].pc = "loop"
              /\ workers'[BATCH].queue = workers[BATCH].queue
              /\ workers'[BATCH].sentCount = workers[BATCH].sentCount
              /\ workers'[BATCH].totalCandidates = workers[BATCH].totalCandidates )
      /\ ( /\ workers[BATCH].pc = "loop"
           /\ workers'[BATCH].pc = "done" )
         => ( /\ workers[BATCH].queue = <<>>
              /\ workers'[BATCH].response = "returned"
              /\ workers'[BATCH].sentCount = workers[BATCH].sentCount
              /\ workers'[BATCH].totalCandidates = workers[BATCH].totalCandidates )
      /\ ( /\ workers[BATCH].pc = "loop"
           /\ workers'[BATCH].pc \notin {"loop", "done"} )
         => ( /\ workers'[BATCH].invoice = Head(workers[BATCH].queue)
              /\ workers'[BATCH].queue = Tail(workers[BATCH].queue) ) ]_vars

\* a run over two eligible candidates has returned { sent: 1, totalCandidates: 2 }:
\* the evaluation of invoice 1 threw before its delivery, invoice 2 was chased
C15_Witness ==
  /\ workers[BATCH].pc = "done"
  /\ workers[BATCH].response = "returned"
  /\ workers[BATCH].totalCandidates = 2
  /\ workers[BATCH].sentCount = 1
  /\ invoices[1].overdue_days = 7
  /\ invoices[1].chase_count = 0
  /\ delivered[1] = 0
  /\ invoices[2].chase_count = 1
  /\ Len(chase_emails) = 1

\* C16: a store failure during a batch run is fatal for the run: the run
\* stops and throws to its caller instead of looping on, and the failed
\* evaluation leaves no record behind.
C16_StoreFailureFatal ==
  [][ /\ ( /\ workers[BATCH].pc = "returned"
           /\ workers[BATCH].error = "store"
           /\ workers'[BATCH].pc # "returned" )
         => ( /\ workers'[BATCH].pc = "done"
              /\ workers'[BATCH].response = "thrown" )
      /\ ( /\ workers[BATCH].pc \in {"insert", "update"}
           /\ workers'[BATCH].error = "store" )
         => Cardinality(RecordsOf(workers[BATCH].invoice.id))'
              = workers[BATCH].records_at_entry ]_vars

(***************************************************************************)
(* The records.                                                            *)
(***************************************************************************)
\* C17: while the delivery of an evaluation is being attempted the invoice
\* has a record with status pending, written before the attempt; after a
\* failed delivery the invoice has a record with status failed.
C17_PendingBeforeDelivery ==
  \A w \in Workers :
    /\ workers[w].pc = "send"
       => \E i \in RecordsOf(workers[w].invoice.id) : chase_emails[i].status = "pending"
    /\ workers[w].error = "send"
       => \E i \in RecordsOf(workers[w].invoice.id) : chase_emails[i].status = "failed"

\* C18: the evaluation whose delivery succeeded ends with the invoice update:
\* last_chase_date is the store's time of that update, chase_count is one
\* above the value the evaluation started from, status is overdue, the
\* evaluation has added exactly one record to the invoice, with status sent,
\* the days overdue of the evaluation and the generated subject and body,
\* and the evaluation returns true.
C18_SuccessfulSend ==
  [][CommitStep(DIRECT)
     => LET w == workers[DIRECT]
            id == w.invoice.id
            last == chase_emails[Len(chase_emails)]
        IN  /\ workers'[DIRECT].ret = "true"
            /\ invoices'[id].last_chase_date = now
            /\ invoices'[id].chase_count = w.count_at_entry + 1
            /\ invoices'[id].chase_count = invoices[id].chase_count + 1
            /\ invoices'[id].status = "overdue"
            /\ Cardinality(RecordsOf(id))' = w.records_at_entry + 1
            /\ Cardinality(SentRecords(id))' = invoices'[id].chase_count
            /\ last.invoice_id = id
            /\ last.status = "sent"
            /\ last.overdue_day = w.daysOverdue
            /\ w.emailContent = GeneratedEmail(w.invoice, w.daysOverdue)
            /\ last.subject_line = w.emailContent.subject
            /\ last.generated_text = w.emailContent.body]_vars

\* an unpaid invoice 7 days overdue has been chased for the first time:
\* status overdue, chase_count 1, one sent record, the evaluation returned true
C18_Witness ==
  /\ workers[DIRECT].ret = "true"
  /\ workers[DIRECT].invoice.status = "unpaid"
  /\ workers[DIRECT].daysOverdue = 7
  /\ invoices[workers[DIRECT].invoice.id].status = "overdue"
  /\ invoices[workers[DIRECT].invoice.id].chase_count = 1
  /\ invoices[workers[DIRECT].invoice.id].last_chase_date = now
  /\ Cardinality(SentRecords(workers[DIRECT].invoice.id)) = 1

(***************************************************************************)
(* Payment.                                                                *)
(***************************************************************************)
\* C19: paid is terminal across later events: a billing sync or a
\* payment-failed notice (any step that is not the commit of an evaluation)
\* leaves the status of a paid invoice paid, and a paid invoice stays out
\* of the candidates of the batch.
C19_PaidIsTerminal ==
  [][\A id \in InvoiceIds :
       ( /\ invoices[id].present
         /\ invoices[id].status = "paid"
         /\ ~\E w \in Concurrent : CommitStep(w) )
       => ( /\ invoices'[id].status = "paid"
            /\ ~IsCandidate(id)' )]_vars

\* C20: chase records are append-only: no step removes a record, a record
\* with status sent is the same after every step, and the only change a
\* step makes to an existing record is pending -> cancelled, in the step of
\* the payment-succeeded handler that follows the payment of its invoice.
C20_AppendOnly ==
  [][ /\ Len(chase_emails') >= Len(chase_emails)
      /\ \A i \in 1..Len(chase_emails) :
           \/ chase_emails'[i] = chase_emails[i]
           \/ /\ chase_emails[i].status = "pending"
              /\ chase_emails'[i] = [chase_emails[i] EXCEPT !.status = "cancelled"]
              /\ workers[WEBHOOK].pc = "cancel"
              /\ workers[WEBHOOK].invoice.id = chase_emails[i].invoice_id ]_vars

\* the record of a chase sent on day 4 or 7 is still there, still sent, after
\* both statements of the payment-succeeded handler ran for its invoice
C20_Witness ==
  \E i \in 1..Len(chase_emails) :
    /\ chase_emails[i].status = "sent"
    /\ chase_emails[i].sent_at <= now
    /\ invoices[chase_emails[i].invoice_id].status = "paid"
    /\ invoices[chase_emails[i].invoice_id].chase_count = 1
    /\ workers[WEBHOOK].pc = "done"
    /\ workers[WEBHOOK].response = "returned"
    /\ \A w \in Concurrent : ~MidSend(w)

(***************************************************************************)
(* Days overdue.                                                           *)
(***************************************************************************)
\* C21: the days overdue of an evaluation is the cached overdue_days of its
\* row whenever that is a number >= 0 (a cached 0 included, whatever the due
\* date); otherwise it is 0 when the due date cannot be parsed or lies
\* ahead, and else the number of whole days from the due date to now.
C21_DaysOverdue ==
  [][EnterStep(DIRECT)
     => LET row == workers'[DIRECT].invoice
            d == workers'[DIRECT].daysOverdue
        IN  IF row.overdue_days # Null /\ row.overdue_days >= 0
            THEN d = row.overdue_days
            ELSE IF row.due_date \in {DUE_EMPTY, DUE_NOT_A_DATE}
            THEN d = 0
            ELSE IF now < row.due_date * ClockPerDay
            THEN d = 0
            ELSE /\ d >= 0
                 /\ d * ClockPerDay <= now - row.due_date * ClockPerDay
                 /\ now - row.due_date * ClockPerDay < (d + 1) * ClockPerDay]_vars

\* an invoice without cached overdue_days, due on day 2, was chased on day
\* 7 as 5 days overdue
C21_Witness ==
  /\ workers[DIRECT].ret = "true"
  /\ workers[DIRECT].invoice.overdue_days = Null
  /\ workers[DIRECT].invoice.due_date = 2
  /\ workers[DIRECT].daysOverdue = 5
  /\ workers[DIRECT].invoice.last_chase_date = Null

(***************************************************************************)
(* The gates.                                                              *)
(***************************************************************************)
\* the first reason, in the order threshold, disabled, paused, capped,
\* interval, for which the row is not eligible at the time t, the time since
\* the last chase taken as the engine reads it
FirstRefusal(row, options, daysOverdue, required, t) ==
  IF daysOverdue < 5 THEN "below_threshold"
  ELSE IF ConfigGetOr(config, "chase_enabled", STR_TRUE) = STR_FALSE THEN "disabled"
  ELSE IF ~options.bypassPaused /\ row.chase_paused = 1 THEN "paused"
  ELSE IF ~maxChaseCount(config).nan /\ row.chase_count >= maxChaseCount(config).val
  THEN "capped"
  ELSE IF /\ ~options.bypassInterval
          /\ row.last_chase_date # Null
          /\ diffHours(t, NewDate(row.last_chase_date))
               < required * HundredthsPerHour - 1
  THEN "interval"
  ELSE "none"

\* C22: an evaluation that is not eligible stops at the first gate that
\* refuses it, in the order threshold, disabled, paused, capped, interval,
\* and is a no-op: it returns false without reaching the payment-link
\* lookup, the generator or the delivery, and its step leaves the invoice,
\* the records and the outbox unchanged.
C22_GatesAreNoOps ==
  [][EnterStep(DIRECT)
     => LET w == workers'[DIRECT]
            refusal == FirstRefusal(w.invoice, w.options, w.daysOverdue,
                                    w.requiredIntervalHours, now)
        IN  /\ w.skipped = refusal
            /\ refusal # "none"
               => ( /\ w.pc = "returned"
                    /\ w.ret = "false"
                    /\ w.emailContent = NoEmail
                    /\ StoreUnchanged )]_vars

\* a paused invoice at its cap was refused for the pause, the earlier gate
C22_Witness ==
  /\ workers[DIRECT].ret = "false"
  /\ workers[DIRECT].skipped = "paused"
  /\ workers[DIRECT].invoice.chase_paused = 1
  /\ ~maxChaseCount(config).nan
  /\ workers[DIRECT].invoice.chase_count >= maxChaseCount(config).val
  /\ workers[DIRECT].invoice.chase_count >= 1

\* C23: while chase_enabled is 'false' no evaluation sends a chase, the
\* expedite with bypassPaused and bypassInterval included: no evaluation is
\* past the gates, nothing has been delivered and no record exists.
C23_DisabledNeverSends ==
  ConfigGetOr(config, "chase_enabled", STR_TRUE) = STR_FALSE
  => /\ \A w \in Concurrent : ~MidSend(w) /\ workers[w].ret # "true"
     /\ \A id \in InvoiceIds : delivered[id] = 0 /\ invoices[id].chase_count = 0
     /\ chase_emails = <<>>

\* with chasing disabled, the evaluation of an expedite of a paused invoice
\* 7 days overdue returned false
C23_Witness ==
  \E w \in Expediters :
    /\ ConfigGetOr(config, "chase_enabled", STR_TRUE) = STR_FALSE
    /\ workers[w].pc = "returned"
    /\ workers[w].ret = "false"
    /\ workers[w].options = ExpediteOptions
    /\ workers[w].invoice.chase_paused = 1
    /\ workers[w].daysOverdue = 7

(***************************************************************************)
(* The next-chase accessor.                                                *)
(***************************************************************************)
\* C24: the next-chase info the overdue listing gives for an invoice is the
\* projection of the engine's policy: no date exactly when the engine's
\* required interval for the row (by the engine's days overdue) is null, the
\* current time when the row was never chased, else the time of the last
\* chase, as the commit stored it, plus the engine's required interval; and
\* the listing writes nothing.
C24_NextChaseProjection ==
  [][workers'[VIEWER] # workers[VIEWER]
     => /\ StoreUnchanged
        /\ \A id \in DOMAIN workers'[VIEWER].response :
             LET row == SelectInvoice(id)
                 info == workers'[VIEWER].response[id]
                 required == getIntervalHoursForOverdueDays(computeDaysOverdue(row, now))
             IN  /\ (info.next_chase_date = Null) <=> (required = Null)
                 /\ (required # Null /\ row.last_chase_date = Null)
                      => info.next_chase_date = now
                 /\ (required # Null /\ row.last_chase_date # Null)
                      => info.next_chase_date
                           = row.last_chase_date + required * HundredthsPerHour]_vars

(***************************************************************************)
(* The recipient.                                                          *)
(***************************************************************************)
\* C25: the record of a chase stores the address the delivery actually used:
\* the record an evaluation inserts has sent_to equal to the recipient its
\* delivery went to, the test recipient when the delivery was rerouted.
C25_RecordedRecipient ==
  [][\A w \in Workers :
       (workers[w].pc = "insert" /\ workers'[w].pc = "update")
       => chase_emails'[Len(chase_emails')].sent_to = workers[w].recipientEmail]_vars

(***************************************************************************)
(* Freshness of the batch's rows.                                          *)
(***************************************************************************)
\* C26: a batch evaluation decides on the state of the invoice as stored
\* when that evaluation begins: it goes on to generate only if the stored
\* row is still unpaid/overdue, under the cap and past its interval, and not
\* paused since the run selected its candidates.
C26_FreshSnapshot ==
  [][( /\ EnterStep(BATCH)
       /\ workers'[BATCH].pc = "link" )
     => LET id == workers'[BATCH].invoice.id
            fresh == SelectInvoice(id)
        IN  /\ fresh.status \in {"unpaid", "overdue"}
            /\ maxChaseCount(config).nan
                 \/ fresh.chase_count < maxChaseCount(config).val
            /\ \/ fresh.last_chase_date = Null
               \/ now - fresh.last_chase_date
                    >= workers'[BATCH].requiredIntervalHours * HundredthsPerHour - 1
            /\ fresh.chase_paused = 1 => id \in workers[BATCH].paused_at_read]_vars

(***************************************************************************)
(* Counter, records and deliveries.                                        *)
(***************************************************************************)
\* C27: while the store answers, in every state in which no evaluation of
\* an invoice stands between its delivery and the end of its commit, the
\* chase_count of the invoice, the number of its sent records and the number
\* of chases delivered for it are equal, however batch runs and expedites
\* interleave.
C27_CountRecordsDeliveries ==
  \A id \in InvoiceIds :
    (\A w \in Concurrent :
        ~(workers[w].pc \in {"insert", "update"} /\ workers[w].invoice.id = id))
    => /\ invoices[id].chase_count = Cardinality(SentRecords(id))
       /\ invoices[id].chase_count = delivered[id]

\* the batch and an expedite both chased the invoice from the same row; the
\* counter, the records and the deliveries all stand at 2
C27_Witness ==
  \E w \in Expediters :
    /\ workers[w].ret = "true"
    /\ workers[BATCH].ret = "true"
    /\ workers[w].invoice.id = workers[BATCH].invoice.id
    /\ workers[w].invoice.chase_count = 0
    /\ workers[BATCH].invoice.chase_count = 0
    /\ invoices[workers[w].invoice.id].chase_count = 2
    /\ Cardinality(SentRecords(workers[w].invoice.id)) = 2
    /\ delivered[workers[w].invoice.id] = 2

(***************************************************************************)
(* Progress of the scheduled chasing.                                      *)
(***************************************************************************)
\* the stored invoice is unpaid/overdue and past due, not paused, at least
\* 5 days overdue, under the cap and past its interval as the engine reads
\* the time of the last chase, with chasing enabled
StoredEligible(id) ==
  /\ invoices[id].present
  /\ invoices[id].due_date # Null
  /\ invoices[id].due_date * ClockPerDay < now
  /\ invoices[id].chase_paused = 0
  /\ OtherwiseEligible(SelectInvoice(id), computeDaysOverdue(SelectInvoice(id), now), now)

\* the clock values of the scheduled specification; an invoice is chased at
\* most once at each, every interval being longer than any zone's offset
LiveMaxChases == (LiveMaxNow - StartNow) \div TickHours + 1

\* the batch has just chased the invoice: the mail is delivered, the record
\* inserted and the row updated, its chase_count one above the count of the
\* row the evaluation read
ChasedByBatch(id) ==
  /\ workers[BATCH].pc = "returned"
  /\ workers[BATCH].ret = "true"
  /\ workers[BATCH].invoice.id = id
  /\ invoices[id].chase_count = workers[BATCH].invoice.chase_count + 1
  /\ invoices[id].last_chase_date = now
  /\ delivered[id] > 0

\* C28: with the batch triggered again and again, the clock advancing and
\* the store, the generator and the delivery not failing forever, an invoice
\* that is eligible (unpaid or overdue, not paused, at least 5 days overdue,
\* under the cap, past its interval, chasing enabled) is eventually chased
\* by the batch, and again each time it has become eligible again, until
\* chase_count reaches max_chase_count; once chase_count has reached
\* max_chase_count no step delivers a chase for it.
C28_EventuallyChased ==
  /\ \A id \in InvoiceIds : StoredEligible(id) ~> ChasedByBatch(id)
  /\ [][\A id \in InvoiceIds :
          ( /\ ~maxChaseCount(config).nan
            /\ invoices[id].chase_count >= maxChaseCount(config).val )
          => delivered'[id] = delivered[id]]_vars

\* with the seeded max_chase_count 4, an invoice was chased on day 4, 7, 10
\* and 13, and a later run refuses it as capped
C28_Witness ==
  \E id \in InvoiceIds :
    /\ maxChaseCount(config).val = 4
    /\ invoices[id].chase_count = 4
    /\ delivered[id] = 4
    /\ \A d \in 0..(LiveMaxChases - 1) :
         \E i \in SentRecords(id) : chase_emails[i].sent_at = StartNow + d * TickHours
    /\ workers[BATCH].pc = "returned"
    /\ workers[BATCH].invoice.id = id
    /\ workers[BATCH].ret = "false"
    /\ workers[BATCH].skipped = "capped"

(***************************************************************************)
(* Spacing of the chases.                                                  *)
(***************************************************************************)
\* C29: with batch runs only, one after the other, two consecutive sent
\* records of an invoice are at least the required interval of the later
\* one (by its days overdue) minus 0.01 h apart, and a run evaluates each
\* invoice at most once: the rows still queued are of different invoices,
\* none of them the invoice being evaluated.
C29_ChaseSpacing ==
  /\ \A id \in InvoiceIds : \A i \in SentRecords(id) : \A j \in SentRecords(id) :
       (i < j /\ ~\E m \in SentRecords(id) : i < m /\ m < j)
       => chase_emails[j].sent_at - chase_emails[i].sent_at
            >= getIntervalHoursForOverdueDays(chase_emails[j].overdue_day)
                 * HundredthsPerHour - 1
  /\ LET q == workers[BATCH].queue
     IN  /\ \A m \in 1..Len(q) : \A n \in 1..Len(q) : q[m].id = q[n].id => m = n
         /\ \A m \in 1..Len(q) : q[m].id # workers[BATCH].invoice.id

(***************************************************************************)
(* The cap setting.                                                        *)
(***************************************************************************)
\* the settings that do not parse as an integer
ClaimedUncapped ==
  "max_chase_count" \in DOMAIN config /\ config["max_chase_count"] = <<"x">>

\* the cap the setting stands for when it parses
ClaimedCap ==
  IF "max_chase_count" \notin DOMAIN config \/ config["max_chase_count"] = <<>> THEN 4
  ELSE IF config["max_chase_count"] = <<"4">> THEN 4
  ELSE IF config["max_chase_count"] = <<"1">> THEN 1
  ELSE IF config["max_chase_count"] = <<"-", "1">> THEN 0 - 1
  ELSE 2

\* C30: the cap an evaluation applies is the integer max_chase_count parses
\* to, 4 when the key is absent or empty, and none when the value does not
\* parse: an evaluation that passes the threshold, enabled and pause gates is
\* refused as capped exactly when there is a cap and chase_count has reached it.
C30_CapFromSetting ==
  [][( /\ EnterStep(DIRECT)
       /\ workers'[DIRECT].daysOverdue >= 5
       /\ ConfigGetOr(config, "chase_enabled", STR_TRUE) # STR_FALSE
       /\ workers'[DIRECT].options.bypassPaused
            \/ workers'[DIRECT].invoice.chase_paused # 1 )
     => ( (workers'[DIRECT].skipped = "capped")
          <=> ( /\ ~ClaimedUncapped
                /\ workers'[DIRECT].invoice.chase_count >= ClaimedCap ) )]_vars

\* with max_chase_count 'x' an invoice already chased 4 times was chased again
C30_Witness ==
  /\ "max_chase_count" \in DOMAIN config
  /\ config["max_chase_count"] = <<"x">>
  /\ workers[DIRECT].ret = "true"
  /\ workers[DIRECT].invoice.chase_count = 4
  /\ invoices[workers[DIRECT].invoice.id].chase_count = 5

====
